---- MODULE Spec2Model ----
(***************************************************************************)
(* Model of function_app.py: the HTTP-triggered BlobCreatedHandler, which  *)
(* answers the Event Grid subscription-validation handshake and logs one   *)
(* structured entry per Microsoft.Storage.BlobCreated event, and its       *)
(* helper _parse_blob_name_from_url.                                       *)
(*                                                                         *)
(* JSON values are records tagged by t: "missing" (the key is not in the   *)
(* dict), "null", "str" (an opaque string s), "text" (a string given as    *)
(* the sequence c of its characters, used where the code looks inside the  *)
(* string), "num", "array" and "obj".                                      *)
(***************************************************************************)
EXTENDS Integers, Sequences, FiniteSets, TLC

VARIABLES
    body,       \* the request body, as req.get_body() returns it
    events,     \* json.loads(...) of the body (line 18)
    pc,         \* the handler's position: "try", "loop", "except", "done"
    i,          \* position in events of the event the for loop handles next
    url,        \* the handler's local url (line 36); the helper's argument
    blob_name,  \* the handler's local blob_name (line 37); the helper's result
    logs,       \* the log sink: every record logged, over all invocations
    lookups,    \* the metadata lookups attempted (lines 47-49), all invocations
    response,   \* the HttpResponse returned by the current invocation
    inv         \* number of the current invocation of the handler

vars == <<body, events, pc, i, url, blob_name, logs, lookups, response, inv>>

(***************************************************************************)
(* Bounds of the model.                                                    *)
(***************************************************************************)
MaxBatch == 3
MaxRetryBatch == 2
MaxInvocations == 2
MaxPathLen == 4

(***************************************************************************)
(* JSON values and Python's view of them.                                  *)
(***************************************************************************)
Missing == [t |-> "missing"]
Null == [t |-> "null"]
Str(s) == [t |-> "str", s |-> s]
Text(c) == [t |-> "text", c |-> c]
Num(n) == [t |-> "num", n |-> n]
Array(items) == [t |-> "array", items |-> items]

\* Python's None; JSON null loads as None
None == Null

\* dict.get(key): None when the key is missing
Get(v) == IF v = Missing THEN None ELSE v

\* Python truthiness of a loaded JSON value (`if not x`, `if x`)
Truthy(v) ==
    CASE v.t = "missing" -> FALSE
      [] v.t = "null" -> FALSE
      [] v.t = "str" -> v.s # ""
      [] v.t = "text" -> v.c # <<>>
      [] v.t = "num" -> v.n # 0
      [] OTHER -> TRUE

\* whether a value has the dict method .get
IsDict(v) == v.t = "obj"

(***************************************************************************)
(* Strings as sequences of characters, and the str methods the code uses.  *)
(***************************************************************************)
Take(s, n) == SubSeq(s, 1, IF n < Len(s) THEN n ELSE Len(s))
Drop(s, n) == SubSeq(s, n + 1, Len(s))

\* str.find: the first position of ch in s (1-based), 0 when there is none
Find(s, ch) ==
    IF \E k \in 1..Len(s) : s[k] = ch
    THEN CHOOSE k \in 1..Len(s) : s[k] = ch /\ \A j \in 1..(k - 1) : s[j] # ch
    ELSE 0

\* str.rfind: the last position of ch in s, 0 when there is none
RFind(s, ch) ==
    IF \E k \in 1..Len(s) : s[k] = ch
    THEN CHOOSE k \in 1..Len(s) : s[k] = ch /\ \A j \in (k + 1)..Len(s) : s[j] # ch
    ELSE 0

\* str.find(ch, start): the first position of ch in s after the first `start` characters
FindFrom(s, ch, start) ==
    LET k == Find(Drop(s, start), ch) IN IF k = 0 THEN 0 ELSE k + start

RECURSIVE lstrip(_, _)
\* str.lstrip(chars): s without its leading characters that are in chars
lstrip(s, chars) ==
    IF s # <<>> /\ Head(s) \in chars THEN lstrip(Tail(s), chars) ELSE s

RECURSIVE Without(_, _)
\* s with every character of chars removed (str.replace(b, "") for each b)
Without(s, chars) ==
    IF s = <<>> THEN <<>>
    ELSE IF Head(s) \in chars THEN Without(Tail(s), chars)
    ELSE <<Head(s)>> \o Without(Tail(s), chars)

ascii_lowercase ==
    <<"a", "b", "c", "d", "e", "f", "g", "h", "i", "j", "k", "l", "m",
      "n", "o", "p", "q", "r", "s", "t", "u", "v", "w", "x", "y", "z">>
ascii_uppercase ==
    <<"A", "B", "C", "D", "E", "F", "G", "H", "I", "J", "K", "L", "M",
      "N", "O", "P", "Q", "R", "S", "T", "U", "V", "W", "X", "Y", "Z">>
digits == <<"0", "1", "2", "3", "4", "5", "6", "7", "8", "9">>

Range(s) == {s[k] : k \in 1..Len(s)}
Letters == Range(ascii_lowercase) \cup Range(ascii_uppercase)

\* str.lower of one character
LowerChar(ch) ==
    IF ch \in Range(ascii_uppercase) THEN ascii_lowercase[Find(ascii_uppercase, ch)] ELSE ch

lower(s) == [k \in 1..Len(s) |-> LowerChar(s[k])]

\* the printable ASCII characters, codes 32 to 126 in order (code 96 by name)
Printable ==
    <<" ", "!", "\"", "#", "$", "%", "&", "'", "(", ")", "*", "+", ",", "-", ".", "/">>
    \o digits \o <<":", ";", "<", "=", ">", "?", "@">> \o ascii_uppercase
    \o <<"[", "\\", "]", "^", "_", "BACKTICK">> \o ascii_lowercase \o <<"{", "|", "}", "~">>

\* the character of a decoded byte: bytes.decode("utf-8", "replace") of one byte that
\* no continuation byte follows (U+FFFD for a byte above 127)
Chr(n) ==
    IF n \in 32..126 THEN Printable[n - 31]
    ELSE IF n > 127 THEN "U+FFFD"
    ELSE "\\x" \o ToString(n)

HexDigits == Range(digits) \cup {"a", "b", "c", "d", "e", "f", "A", "B", "C", "D", "E", "F"}

HexVal(ch) ==
    IF ch \in Range(digits) THEN Find(digits, ch) - 1
    ELSE 9 + Find(ascii_lowercase, LowerChar(ch))

(***************************************************************************)
(* urllib.parse.urlparse and unquote, as far as the handler uses them.     *)
(***************************************************************************)
\* urllib.parse._WHATWG_C0_CONTROL_OR_SPACE and _UNSAFE_URL_BYTES_TO_REMOVE
C0_CONTROL_OR_SPACE == {" ", "\t", "\n", "\r"}
UNSAFE_URL_BYTES_TO_REMOVE == {"\t", "\r", "\n"}
scheme_chars == Letters \cup Range(digits) \cup {"+", "-", "."}
uses_params ==
    {<<>>, <<"f", "t", "p">>, <<"h", "t", "t", "p">>, <<"h", "t", "t", "p", "s">>,
     <<"s", "f", "t", "p">>, <<"t", "e", "l">>}

\* the least positive of the positions (0: not found), n when none is positive
MinFound(ps, n) ==
    IF \E p \in ps : p > 0
    THEN CHOOSE p \in ps : p > 0 /\ \A q \in ps : q > 0 => p <= q
    ELSE n

\* str.partition(ch)[0] and [2]: s before and after its first ch
Before(s, ch) == IF Find(s, ch) > 0 THEN Take(s, Find(s, ch) - 1) ELSE s
After(s, ch) == IF Find(s, ch) > 0 THEN Drop(s, Find(s, ch)) ELSE <<>>

\* urlsplit: url[:i] is a scheme
HasScheme(s) ==
    /\ Find(s, ":") > 1
    /\ s[1] \in Letters
    /\ \A k \in 1..(Find(s, ":") - 1) : s[k] \in scheme_chars

\* _splitnetloc(url, 2): the position of the first "/", "?" or "#" after the "//"
NetlocEnd(s) ==
    MinFound({FindFrom(s, "/", 2), FindFrom(s, "?", 2), FindFrom(s, "#", 2)}, Len(s) + 1)

\* urlsplit: "Invalid IPv6 URL"
BadBrackets(netloc) ==
    \/ ("[" \in Range(netloc) /\ "]" \notin Range(netloc))
    \/ ("]" \in Range(netloc) /\ "[" \notin Range(netloc))

\* _splitparams: the position of the first ";" of the last path segment, 0 for none
ParamsAt(s) ==
    IF Find(s, "/") > 0 THEN FindFrom(s, ";", RFind(s, "/")) ELSE Find(s, ";")

\* urlparse: `if scheme in uses_params and ';' in url`, then _splitparams
urlparse_params(scheme, netloc, s, query, fragment) ==
    IF scheme \in uses_params /\ ParamsAt(s) > 0
    THEN [ok |-> TRUE, scheme |-> scheme, netloc |-> netloc,
          path |-> Take(s, ParamsAt(s) - 1), params |-> Drop(s, ParamsAt(s)),
          query |-> query, fragment |-> fragment]
    ELSE [ok |-> TRUE, scheme |-> scheme, netloc |-> netloc, path |-> s,
          params |-> <<>>, query |-> query, fragment |-> fragment]

\* urlsplit: the query is split off at the first "?"
urlsplit_query(scheme, netloc, s, fragment) ==
    urlparse_params(scheme, netloc, Before(s, "?"), After(s, "?"), fragment)

\* urlsplit: the bracket check, then the fragment is split off at the first "#"
urlsplit_fragment(scheme, netloc, s) ==
    IF BadBrackets(netloc)
    THEN [ok |-> FALSE]
    ELSE urlsplit_query(scheme, netloc, Before(s, "#"), After(s, "#"))

\* urlsplit: `if url[:2] == '//'`, the netloc is split off
urlsplit_netloc(scheme, s) ==
    IF Take(s, 2) = <<"/", "/">>
    THEN urlsplit_fragment(scheme, SubSeq(s, 3, NetlocEnd(s) - 1), Drop(s, NetlocEnd(s) - 1))
    ELSE urlsplit_fragment(scheme, <<>>, s)

\* urlsplit: the scheme is split off and lowered
urlsplit_scheme(s) ==
    IF HasScheme(s)
    THEN urlsplit_netloc(lower(Take(s, Find(s, ":") - 1)), Drop(s, Find(s, ":")))
    ELSE urlsplit_netloc(<<>>, s)

\* urllib.parse.urlparse(url): [ok |-> FALSE] when it raises ValueError, otherwise
\* the components. A netloc that holds both "[" and "]" is validated further by
\* recent Python versions only; no url drawn below has one.
urlparse(u) ==
    urlsplit_scheme(Without(lstrip(u, C0_CONTROL_OR_SPACE), UNSAFE_URL_BYTES_TO_REMOVE))

RECURSIVE unquote(_)
\* urllib.parse.unquote: each "%" followed by two hex digits becomes the character of
\* that byte, in one pass from the left; any other "%" stays
unquote(s) ==
    IF s = <<>> THEN <<>>
    ELSE IF Head(s) = "%" /\ Len(s) >= 3 /\ s[2] \in HexDigits /\ s[3] \in HexDigits
    THEN <<Chr(16 * HexVal(s[2]) + HexVal(s[3]))>> \o unquote(Drop(s, 3))
    ELSE <<Head(s)>> \o unquote(Tail(s))

\* the call raises (urlparse's ValueError)
parse_raises(u) == ~urlparse(u).ok

\* a variant that strips one "/" only (path[1:] in place of lstrip)
StripPath_One(path) == IF path # <<>> /\ Head(path) = "/" THEN Tail(path) ELSE path

\* line 12: p.path.lstrip("/")
StripPath(path) == lstrip(path, {"/"})

\* _parse_blob_name_from_url(url), for a url the call does not raise on
parse_blob_name_from_url(u) == unquote(StripPath(urlparse(u).path))

(***************************************************************************)
(* The requests: event objects, batches and request bodies.                *)
(***************************************************************************)
ValidationType == "Microsoft.EventGrid.SubscriptionValidationEvent"
BlobCreatedType == "Microsoft.Storage.BlobCreated"

Data(u, contentLength, versionId, validationCode) ==
    [t |-> "obj", url |-> u, contentLength |-> contentLength,
     versionId |-> versionId, validationCode |-> validationCode]

Event(eventType, eventTime, data) ==
    [t |-> "obj", eventType |-> eventType, eventTime |-> eventTime, data |-> data]

\* the default {} of event.get("data", {})
EmptyDict == Data(Missing, Missing, Missing, Missing)

\* https://h/c/a%20b
UrlPlain ==
    <<"h", "t", "t", "p", "s", ":", "/", "/", "h", "/", "c", "/", "a", "%", "2", "0", "b">>
\* https://h//c/%2Fx
UrlSlashes ==
    <<"h", "t", "t", "p", "s", ":", "/", "/", "h", "/", "/", "c", "/", "%", "2", "F", "x">>
\* http://[h/c : urlparse raises ValueError on it
UrlUnparseable == <<"h", "t", "t", "p", ":", "/", "/", "[", "h", "/", "c">>

ValidationEvents ==
    {Event(Str(ValidationType), Missing, d) :
        d \in {Missing, Null,
               Data(Missing, Missing, Missing, Str("")),
               Data(Missing, Missing, Missing, Str("abc123")),
               Data(Missing, Missing, Missing, Str("xyz789"))}}

BlobCreatedEvents ==
    {Event(Str(BlobCreatedType), Str("t1"), Data(Missing, Num(1), Missing, Missing)),
     Event(Str(BlobCreatedType), Str("t2"), Data(Missing, Num(2), Str("v1"), Missing)),
     Event(Str(BlobCreatedType), Str("t3"), Data(Text(UrlPlain), Num(3), Missing, Missing)),
     Event(Str(BlobCreatedType), Str("t4"), Data(Text(UrlSlashes), Num(4), Str("v1"), Missing)),
     Event(Str(BlobCreatedType), Missing, Data(Text(UrlPlain), Missing, Str(""), Missing)),
     Event(Str(BlobCreatedType), Str("t6"), Data(Text(UrlUnparseable), Num(6), Missing, Missing))}

OtherEvents ==
    {Event(Str("Microsoft.Storage.BlobDeleted"), Str("t3"),
           Data(Text(UrlPlain), Num(3), Missing, Str("abc123"))),
     Event(Missing, Missing, Data(Text(UrlPlain), Num(3), Missing, Str("abc123")))}

\* array elements that are not JSON objects
NonObjects == {Str("oops")}

EventUniverse == ValidationEvents \cup BlobCreatedEvents \cup OtherEvents \cup NonObjects

Batches == UNION {[1..n -> EventUniverse] : n \in 0..MaxBatch}

\* what req.get_body() can hold: nothing, bytes that are not JSON, JSON
Bodies ==
    {[kind |-> "empty"], [kind |-> "invalid"], [kind |-> "json", value |-> Num(7)]}
    \cup {[kind |-> "json", value |-> Array(b)] : b \in Batches}

(***************************************************************************)
(* Responses and log records. A log record carries the invocation and the  *)
(* position of the event being handled when it was written (history tags). *)
(***************************************************************************)
NoResponse == [status |-> 0]

\* a variant without mimetype="application/json"
HandshakeResponse_NoMimetype(code) ==
    [status |-> 200, mimetype |-> "text/plain",
     body |-> [k |-> "json", validationResponse |-> code]]

\* lines 28-32: json.dumps({"validationResponse": validation_code}), application/json
HandshakeResponse(code) ==
    [status |-> 200, mimetype |-> "application/json",
     body |-> [k |-> "json", validationResponse |-> code]]

\* line 63: func.HttpResponse(status_code=200)
OkResponse == [status |-> 200, mimetype |-> "text/plain", body |-> [k |-> "empty"]]

\* a variant without status_code=500
ErrorResponse_Ok ==
    [status |-> 200, mimetype |-> "text/plain", body |-> [k |-> "text", s |-> "Error"]]

\* line 67: func.HttpResponse("Error", status_code=500)
ErrorResponse ==
    [status |-> 500, mimetype |-> "text/plain", body |-> [k |-> "text", s |-> "Error"]]

\* a variant that takes event_time from data, where there is none
log_entry_TimeFromData(name, blob_size, version_id, event_time) ==
    [blob_name |-> name, blob_size |-> blob_size,
     version_id |-> version_id, event_time |-> None]

\* lines 55-60: the dict that json.dumps serialises
log_entry(name, blob_size, version_id, event_time) ==
    [blob_name |-> name, blob_size |-> blob_size,
     version_id |-> version_id, event_time |-> event_time]

\* line 44
LogTry(u) == [inv |-> inv, pos |-> i, level |-> "info", kind |-> "try", url |-> u]
\* line 52
LogWarning(name) ==
    [inv |-> inv, pos |-> i, level |-> "warning", kind |-> "version", blob_name |-> name]
\* line 61
LogEntry(e) == [inv |-> inv, pos |-> i, level |-> "info", kind |-> "entry", entry |-> e]
\* line 66
LogException == [inv |-> inv, pos |-> i, level |-> "error", kind |-> "exception"]

\* what lines 47-50 can do: raise, or return properties whose version_id is a
\* string or None (a container without versioning)
LookupOutcomes ==
    {[ok |-> FALSE], [ok |-> TRUE, version_id |-> Str("v7")], [ok |-> TRUE, version_id |-> None]}

(***************************************************************************)
(* BlobCreatedHandler.                                                     *)
(***************************************************************************)
Init ==
    /\ body \in Bodies
    /\ events = None
    /\ pc = "try"
    /\ i = 0
    /\ url = None
    /\ blob_name = None
    /\ logs = <<>>
    /\ lookups = <<>>
    /\ response = NoResponse
    /\ inv = 1

\* an exception leaves the try block for the except clause
Raise == pc' = "except"

\* line 18, json.loads raises
ParseBodyRaises ==
    /\ pc = "try"
    /\ body.kind = "invalid"
    /\ Raise
    /\ UNCHANGED <<body, events, i, url, blob_name, logs, lookups, response, inv>>

\* line 18: events = json.loads(req.get_body() or "[]")
ParseBody ==
    /\ pc = "try"
    /\ body.kind # "invalid"
    /\ events' = IF body.kind = "empty" THEN Array(<<>>) ELSE body.value
    /\ i' = 1
    /\ pc' = "loop"
    /\ UNCHANGED <<body, url, blob_name, logs, lookups, response, inv>>

\* line 20, events is not iterable (TypeError)
IterRaises ==
    /\ pc = "loop"
    /\ events.t # "array"
    /\ Raise
    /\ UNCHANGED <<body, events, i, url, blob_name, logs, lookups, response, inv>>

\* the for loop has an event left
InLoop == pc = "loop" /\ events.t = "array" /\ i <= Len(events.items)

\* line 20: the loop variable
event == events.items[i]

\* line 21
event_type == Get(event.eventType)

\* event.get("data", {}) of lines 25 and 35
data == IF event.data = Missing THEN EmptyDict ELSE event.data

\* line 25
validation_code == Get(data.validationCode)

\* line 24
IsValidation == event_type = Str(ValidationType)

\* line 34
IsBlobCreated == event_type = Str(BlobCreatedType)

\* line 26: `if not validation_code: continue`
SkipsHandshake(code) == ~Truthy(code)

\* a variant that looks up whenever there is a url
NeedsLookup_IgnoresVersion(version_id, u) == Truthy(u)

\* line 43: `if not version_id and url`
NeedsLookup(version_id, u) == ~Truthy(version_id) /\ Truthy(u)

\* the next iteration of the for loop
Continue == i' = i + 1 /\ pc' = "loop"

\* line 21, event has no .get (AttributeError)
EventNotObject ==
    /\ InLoop
    /\ ~IsDict(event)
    /\ Raise
    /\ UNCHANGED <<body, events, i, url, blob_name, logs, lookups, response, inv>>

\* line 25 or 35, data has no .get (AttributeError)
DataNotObject ==
    /\ InLoop
    /\ IsDict(event)
    /\ IsValidation \/ IsBlobCreated
    /\ ~IsDict(data)
    /\ Raise
    /\ UNCHANGED <<body, events, i, url, blob_name, logs, lookups, response, inv>>

\* a variant with `break` in place of `continue`
ValidationSkip_Break ==
    /\ InLoop
    /\ IsDict(event) /\ IsValidation /\ IsDict(data)
    /\ SkipsHandshake(validation_code)
    /\ i' = Len(events.items) + 1
    /\ pc' = "loop"
    /\ UNCHANGED <<body, events, url, blob_name, logs, lookups, response, inv>>

\* lines 24-27: a validation event with no usable code is passed over
ValidationSkip ==
    /\ InLoop
    /\ IsDict(event) /\ IsValidation /\ IsDict(data)
    /\ SkipsHandshake(validation_code)
    /\ Continue
    /\ UNCHANGED <<body, events, url, blob_name, logs, lookups, response, inv>>

\* a variant that keeps the response for the end of the loop instead of returning it
ValidationRespond_NoReturn ==
    /\ InLoop
    /\ IsDict(event) /\ IsValidation /\ IsDict(data)
    /\ ~SkipsHandshake(validation_code)
    /\ response' = HandshakeResponse(validation_code)
    /\ Continue
    /\ UNCHANGED <<body, events, url, blob_name, logs, lookups, inv>>

\* lines 24-32: the handshake response is returned from inside the loop
ValidationRespond ==
    /\ InLoop
    /\ IsDict(event) /\ IsValidation /\ IsDict(data)
    /\ ~SkipsHandshake(validation_code)
    /\ response' = HandshakeResponse(validation_code)
    /\ pc' = "done"
    /\ UNCHANGED <<body, events, i, url, blob_name, logs, lookups, inv>>

\* line 37, _parse_blob_name_from_url raises: url is no string (AttributeError) or
\* urlparse rejects it (ValueError)
UrlRaises(u) == IF u.t = "text" THEN parse_raises(u.c) ELSE TRUE

BlobUrlRaises ==
    /\ InLoop
    /\ IsDict(event) /\ ~IsValidation /\ IsBlobCreated /\ IsDict(data)
    /\ Truthy(Get(data.url)) /\ UrlRaises(Get(data.url))
    /\ url' = Get(data.url)
    /\ Raise
    /\ UNCHANGED <<body, events, i, blob_name, logs, lookups, response, inv>>

\* line 37
BlobNameOf(u) == IF Truthy(u) THEN Text(parse_blob_name_from_url(u.c)) ELSE None

\* lines 34-41, 55-61: a BlobCreated event that needs no lookup
BlobNoLookup ==
    /\ InLoop
    /\ IsDict(event) /\ ~IsValidation /\ IsBlobCreated /\ IsDict(data)
    /\ LET u == Get(data.url)
           version_id == Get(data.versionId)
       IN  /\ ~(Truthy(u) /\ UrlRaises(u))
           /\ ~NeedsLookup(version_id, u)
           /\ url' = u
           /\ blob_name' = BlobNameOf(u)
           /\ logs' = Append(logs, LogEntry(log_entry(BlobNameOf(u),
                        Get(data.contentLength), version_id, Get(event.eventTime))))
    /\ Continue
    /\ UNCHANGED <<body, events, lookups, response, inv>>

\* lines 34-61: a BlobCreated event whose version_id is looked up, once
BlobLookup ==
    /\ InLoop
    /\ IsDict(event) /\ ~IsValidation /\ IsBlobCreated /\ IsDict(data)
    /\ LET u == Get(data.url)
       IN  /\ ~(Truthy(u) /\ UrlRaises(u))
           /\ NeedsLookup(Get(data.versionId), u)
           /\ url' = u
           /\ blob_name' = BlobNameOf(u)
           /\ lookups' = Append(lookups, [inv |-> inv, pos |-> i, url |-> u])
           /\ \E out \in LookupOutcomes :
                LET version_id == IF out.ok THEN out.version_id ELSE None
                    entry == LogEntry(log_entry(BlobNameOf(u), Get(data.contentLength),
                                                version_id, Get(event.eventTime)))
                IN  logs' = logs \o <<LogTry(u)>>
                            \o (IF out.ok THEN <<>> ELSE <<LogWarning(BlobNameOf(u))>>)
                            \o <<entry>>
    /\ Continue
    /\ UNCHANGED <<body, events, response, inv>>

\* a variant that logs an entry for an event of any other type
IgnoreEvent_Logs ==
    /\ InLoop
    /\ IsDict(event) /\ ~IsValidation /\ ~IsBlobCreated
    /\ logs' = Append(logs, LogEntry(log_entry(None, None, None, Get(event.eventTime))))
    /\ Continue
    /\ UNCHANGED <<body, events, url, blob_name, lookups, response, inv>>

\* lines 24 and 34 both false: nothing is done for the event
IgnoreEvent ==
    /\ InLoop
    /\ IsDict(event) /\ ~IsValidation /\ ~IsBlobCreated
    /\ Continue
    /\ UNCHANGED <<body, events, url, blob_name, logs, lookups, response, inv>>

\* line 63: the loop ran to its end
LoopEnd ==
    /\ pc = "loop" /\ events.t = "array" /\ i > Len(events.items)
    /\ response' = OkResponse
    /\ pc' = "done"
    /\ UNCHANGED <<body, events, i, url, blob_name, logs, lookups, inv>>

\* a variant in which the entries of a failed invocation are dropped
Except_Retracts ==
    /\ pc = "except"
    /\ logs' = Append(SelectSeq(logs, LAMBDA r : ~(r.kind = "entry" /\ r.inv = inv)),
                      LogException)
    /\ response' = ErrorResponse
    /\ pc' = "done"
    /\ UNCHANGED <<body, events, i, url, blob_name, lookups, inv>>

\* lines 65-67
Except ==
    /\ pc = "except"
    /\ logs' = Append(logs, LogException)
    /\ response' = ErrorResponse
    /\ pc' = "done"
    /\ UNCHANGED <<body, events, i, url, blob_name, lookups, inv>>

\* the caller sends the same body again after a 500
Retry ==
    /\ pc = "done"
    /\ response.status = 500
    /\ inv < MaxInvocations
    /\ inv' = inv + 1
    /\ pc' = "try"
    /\ events' = None
    /\ i' = 0
    /\ url' = None
    /\ blob_name' = None
    /\ response' = NoResponse
    /\ UNCHANGED <<body, logs, lookups>>

\* one invocation of the handler
BlobCreatedHandler ==
    \/ ParseBodyRaises
    \/ ParseBody
    \/ IterRaises
    \/ EventNotObject
    \/ DataNotObject
    \/ ValidationSkip
    \/ ValidationRespond
    \/ BlobUrlRaises
    \/ BlobNoLookup
    \/ BlobLookup
    \/ IgnoreEvent
    \/ LoopEnd
    \/ Except

Next == BlobCreatedHandler

Spec == Init /\ [][Next]_vars

(***************************************************************************)
(* The handler with a caller that retries a batch answered with 500.       *)
(***************************************************************************)
InitRetry ==
    /\ Init
    /\ IF body.kind = "json" /\ body.value.t = "array"
       THEN Len(body.value.items) <= MaxRetryBatch
       ELSE TRUE

NextRetry == BlobCreatedHandler \/ Retry

SpecRetry == InitRetry /\ [][NextRetry]_vars

(***************************************************************************)
(* _parse_blob_name_from_url called on its own, on every url made of a     *)
(* prefix and at most MaxPathLen further characters.                       *)
(***************************************************************************)
UrlPrefixes ==
    {<<>>, <<"h", "t", "t", "p", "s", ":", "/", "/", "h">>,
     <<"h", "t", "t", "p", "s", ":", "/", "/", "h", "/">>,
     <<"h", "t", "t", "p", ":", "/", "/", "[", "h">>}

UrlAlphabet == {"/", "%", "2", "F", "a", ";"}

UrlInputs ==
    {pre \o rest : pre \in UrlPrefixes,
                   rest \in UNION {[1..n -> UrlAlphabet] : n \in 0..MaxPathLen}}

InitUrl ==
    /\ body = [kind |-> "empty"]
    /\ events = None
    /\ pc = "call"
    /\ i = 0
    /\ url \in {Text(u) : u \in UrlInputs}
    /\ blob_name = None
    /\ logs = <<>>
    /\ lookups = <<>>
    /\ response = NoResponse
    /\ inv = 1

\* lines 10-13, the call returns
ParseCall ==
    /\ pc = "call"
    /\ ~parse_raises(url.c)
    /\ blob_name' = Text(parse_blob_name_from_url(url.c))
    /\ pc' = "returned"
    /\ UNCHANGED <<body, events, i, url, logs, lookups, response, inv>>

\* line 11, urlparse raises
ParseCallRaises ==
    /\ pc = "call"
    /\ parse_raises(url.c)
    /\ pc' = "raised"
    /\ UNCHANGED <<body, events, i, url, blob_name, logs, lookups, response, inv>>

NextUrl == ParseCall \/ ParseCallRaises

SpecUrl == InitUrl /\ [][NextUrl]_vars

(***************************************************************************)
(* What the claims speak of, stated over the request and the log sink.     *)
(***************************************************************************)
\* the batch of the request: the elements of the body's JSON array
Items == IF body.kind = "json" /\ body.value.t = "array" THEN body.value.items ELSE <<>>

BodyIsBatch == body.kind = "empty" \/ (body.kind = "json" /\ body.value.t = "array")

Done == pc = "done"

\* the structured log entries of invocation n, in the order they were written
EntriesOf(n) == SelectSeq(logs, LAMBDA r : r.kind = "entry" /\ r.inv = n)

\* the same entries without their history tags
Untagged(rs) == [j \in 1..Len(rs) |-> rs[j].entry]

LookupsAt(n, k) == {j \in 1..Len(lookups) : lookups[j].inv = n /\ lookups[j].pos = k}

HasType(e, ty) == e.t = "obj" /\ e.eventType = Str(ty)
IsValidationEvent(e) == HasType(e, ValidationType)
IsBlobEvent(e) == HasType(e, BlobCreatedType)
IsUnknownEvent(e) == e.t = "obj" /\ ~IsValidationEvent(e) /\ ~IsBlobEvent(e)

\* a field is absent: not in the object, or null
Absent(v) == v = Missing \/ v = Null
\* a field holds an empty string
Empty(v) == v = Str("") \/ v = Text(<<>>)
AbsentAsNone(v) == IF v = Missing THEN Null ELSE v

\* the event's data payload; an event without the key has an empty payload
Payload(e) == IF e.data = Missing THEN Data(Missing, Missing, Missing, Missing) ELSE e.data
PayloadIsObject(e) == e.data = Missing \/ e.data.t = "obj"

\* a url that urlparse accepts
GoodUrl(u) == IF u.t = "text" THEN urlparse(u.c).ok ELSE FALSE

\* the event makes the handler raise
RaisesOn(e) ==
    IF e.t # "obj" THEN TRUE
    ELSE IF ~(IsValidationEvent(e) \/ IsBlobEvent(e)) THEN FALSE
    ELSE IF ~PayloadIsObject(e) THEN TRUE
    ELSE IF IsValidationEvent(e) THEN FALSE
    ELSE ~Absent(Payload(e).url) /\ ~Empty(Payload(e).url) /\ ~GoodUrl(Payload(e).url)

\* the event carries a validation code (any value that is not null)
CarriesCode(e) ==
    IsValidationEvent(e) /\ PayloadIsObject(e) /\ ~Absent(Payload(e).validationCode)

\* the event carries a validation code that is not empty
CarriesNonEmptyCode(e) == CarriesCode(e) /\ ~Empty(Payload(e).validationCode)

\* the first position of b at which the handler stops: a raise or a handshake;
\* Len(b) + 1 when it handles the whole batch
StopSet(b) == {k \in 1..Len(b) : RaisesOn(b[k]) \/ CarriesNonEmptyCode(b[k])}
FirstOf(S, otherwise) == IF S = {} THEN otherwise ELSE CHOOSE k \in S : \A j \in S : k <= j
StopPos(b) == FirstOf(StopSet(b), Len(b) + 1)

\* 200 with an empty body; 500 with the plain text "Error"
Reply200 == [status |-> 200, mimetype |-> "text/plain", body |-> [k |-> "empty"]]
Reply500 == [status |-> 500, mimetype |-> "text/plain", body |-> [k |-> "text", s |-> "Error"]]

\* an unhandled exception occurs while the request is parsed or processed
RaisesAt(b, k) == k <= Len(b) /\ RaisesOn(b[k])
ExceptionOccurs == ~BodyIsBatch \/ RaisesAt(Items, StopPos(Items))

\* the positions of the BlobCreated events of b before position k
BlobPositions(b, k) == {j \in 1..Len(b) : j < k /\ IsBlobEvent(b[j])}

\* the j-th smallest element of the set S of numbers
Nth(S, j) == CHOOSE k \in S : Cardinality({m \in S : m <= k}) = j

\* percent-decoding, by positions: an escape is a "%" followed by two hex digits
EscapeAt(p, k) ==
    k >= 1 /\ k + 2 <= Len(p) /\ p[k] = "%" /\ p[k + 1] \in HexDigits /\ p[k + 2] \in HexDigits
KeptPositions(p) == {k \in 1..Len(p) : ~EscapeAt(p, k - 1) /\ ~EscapeAt(p, k - 2)}
DecodedAt(p, k) ==
    IF EscapeAt(p, k) THEN Chr(16 * HexVal(p[k + 1]) + HexVal(p[k + 2])) ELSE p[k]
DecodedOver(p, K) == [j \in 1..Cardinality(K) |-> DecodedAt(p, Nth(K, j))]
PercentDecoded(p) == DecodedOver(p, KeptPositions(p))

\* the number of "/" that p begins with
LeadingSlashes(p) ==
    CHOOSE n \in 0..Len(p) :
        /\ \A k \in 1..n : p[k] = "/"
        /\ n = Len(p) \/ p[n + 1] # "/"

StripAllSlashes(p) == SubSeq(p, LeadingSlashes(p) + 1, Len(p))
StripOneSlash(p) == IF LeadingSlashes(p) > 0 THEN SubSeq(p, 2, Len(p)) ELSE p

\* the blob name of an event whose url the handler could parse
NameOf(e) ==
    IF Absent(Payload(e).url) \/ Empty(Payload(e).url) THEN Null
    ELSE Text(PercentDecoded(StripAllSlashes(urlparse(Payload(e).url.c).path)))

\* the event has a version of its own: a versionId that is neither absent nor empty
HasOwnVersion(e) == ~Absent(Payload(e).versionId) /\ ~Empty(Payload(e).versionId)

\* entry x is derived from event e alone (and, for a version looked up, from the
\* metadata service's answer)
DerivedWithName(x, e, name) ==
    /\ x.blob_name = name
    /\ x.blob_size = AbsentAsNone(Payload(e).contentLength)
    /\ x.event_time = AbsentAsNone(e.eventTime)
    /\ IF HasOwnVersion(e) THEN x.version_id = Payload(e).versionId
       ELSE IF name # Null THEN x.version_id \in {Str("v7"), Null}
       ELSE x.version_id = AbsentAsNone(Payload(e).versionId)
DerivedFrom(x, e) == DerivedWithName(x, e, NameOf(e))

\* the entries of invocation n are those of the BlobCreated events of b before
\* position k, one each, in input order
EntriesMatch(es, b, P) ==
    /\ Len(es) = Cardinality(P)
    /\ \A j \in 1..Len(es) : DerivedFrom(es[j].entry, b[Nth(P, j)])
EntriesAre(n, b, k) == EntriesMatch(EntriesOf(n), b, BlobPositions(b, k))

\* ... and each was written while its own event was being handled
EntriesPlaced(es, P) == \A j \in 1..Len(es) : es[j].pos = Nth(P, j)
EntriesInPlace(n, b, k) ==
    EntriesAre(n, b, k) /\ EntriesPlaced(EntriesOf(n), BlobPositions(b, k))

(***************************************************************************)
(* C1: the validation handshake.                                           *)
(***************************************************************************)
\* every event is an object whose data, if any, is an object and whose url, if any,
\* is a string that parses
WellFormedEvent(e) ==
    /\ e.t = "obj"
    /\ PayloadIsObject(e)
    /\ Absent(Payload(e).url) \/ Empty(Payload(e).url) \/ GoodUrl(Payload(e).url)

WellFormedBatch == BodyIsBatch /\ \A k \in 1..Len(Items) : WellFormedEvent(Items[k])

\* the position of the first event of b that carries a code; a non-empty code
FirstCode(b) ==
    CHOOSE k \in 1..Len(b) : CarriesCode(b[k]) /\ \A j \in 1..(k - 1) : ~CarriesCode(b[j])
FirstNonEmptyCode(b) ==
    CHOOSE k \in 1..Len(b) :
        CarriesNonEmptyCode(b[k]) /\ \A j \in 1..(k - 1) : ~CarriesNonEmptyCode(b[j])

HandshakeOf(e) ==
    [status |-> 200, mimetype |-> "application/json",
     body |-> [k |-> "json", validationResponse |-> Payload(e).validationCode]]

\* C1 as stated: when a batch of well-formed event objects holds a validation event
\* whose data carries a validationCode, the response is 200 with the JSON body
\* {"validationResponse": c}, c being the code of the first such event.
C1_Original ==
    (Done /\ WellFormedBatch /\ \E k \in 1..Len(Items) : CarriesCode(Items[k]))
        => response = HandshakeOf(Items[FirstCode(Items)])

\* C1, amended: when a batch of well-formed event objects holds a validation event
\* whose data carries a non-empty validationCode, the response is 200 with the JSON
\* body {"validationResponse": c}, c being the code of the first such event.
C1_Handshake ==
    (Done /\ WellFormedBatch /\ \E k \in 1..Len(Items) : CarriesNonEmptyCode(Items[k]))
        => response = HandshakeOf(Items[FirstNonEmptyCode(Items)])

\* a batch with a BlobCreated event and then two validation events of different
\* codes was answered with the first code
C1_Witness ==
    /\ Done /\ WellFormedBatch /\ Len(Items) = 3
    /\ IsBlobEvent(Items[1])
    /\ CarriesNonEmptyCode(Items[2]) /\ CarriesNonEmptyCode(Items[3])
    /\ Payload(Items[2]).validationCode # Payload(Items[3]).validationCode
    /\ response.status = 200
    /\ response.body = [k |-> "json", validationResponse |-> Payload(Items[2]).validationCode]

(***************************************************************************)
(* C2: the blob name of a url (under SpecUrl).                             *)
(***************************************************************************)
\* C2 as stated: the blob name is the percent-decoded form of the url's path with
\* exactly one leading "/" stripped.
C2_Original ==
    pc = "returned"
        => blob_name = Text(PercentDecoded(StripOneSlash(urlparse(url.c).path)))

\* C2, amended: the blob name is the percent-decoded form of the url's path with
\* all of its leading "/" stripped; the path is stripped before it is decoded, so
\* a leading %2F stays as "/".
C2_BlobName ==
    pc = "returned"
        => blob_name = Text(PercentDecoded(StripAllSlashes(urlparse(url.c).path)))

\* a path of two slashes and an encoded slash gave the name "/"
C2_Witness ==
    /\ pc = "returned"
    /\ urlparse(url.c).path = <<"/", "/", "%", "2", "F">>
    /\ blob_name = Text(<<"/">>)

(***************************************************************************)
(* C3: one log entry per BlobCreated event, in input order.                *)
(***************************************************************************)
\* C3 as stated: for every batch, the entries logged are those of all the
\* BlobCreated events of the batch, one each, in input order, each derived from
\* its own event.
C3_Original == Done => EntriesInPlace(inv, Items, Len(Items) + 1)

\* C3, amended: for every batch, the entries logged are those of the BlobCreated
\* events before the position where the handler stops (the first event that is
\* answered with the handshake or raises; the end of the batch when there is
\* none), one each, in input order, each derived from its own event.
C3_BatchOrder == Done => EntriesInPlace(inv, Items, StopPos(Items))

\* two different BlobCreated events around an unknown event gave two entries
C3_Witness ==
    /\ Done /\ Len(Items) = 3
    /\ IsBlobEvent(Items[1]) /\ IsUnknownEvent(Items[2]) /\ IsBlobEvent(Items[3])
    /\ Items[1] # Items[3]
    /\ Len(EntriesOf(inv)) = 2
    /\ EntriesOf(inv)[1].entry.event_time = Items[1].eventTime
    /\ EntriesOf(inv)[2].entry.event_time = Items[3].eventTime

(***************************************************************************)
(* C4: enrichment of a missing version.                                    *)
(***************************************************************************)
\* a BlobCreated event whose version_id is absent and whose url is present
NeedsEnrichment(e) ==
    /\ IsBlobEvent(e) /\ PayloadIsObject(e)
    /\ Absent(Payload(e).versionId)
    /\ ~Absent(Payload(e).url)

EntryAt(n, k) == \E j \in 1..Len(EntriesOf(n)) : EntriesOf(n)[j].pos = k

WarningAt(n, k) ==
    \E j \in 1..Len(logs) : logs[j].kind = "version" /\ logs[j].inv = n /\ logs[j].pos = k

VersionAbsentAt(n, k) ==
    \A j \in 1..Len(EntriesOf(n)) :
        EntriesOf(n)[j].pos = k => EntriesOf(n)[j].entry.version_id = Null

\* C4 as stated, for the events the handler gets to: a BlobCreated event whose
\* version_id is absent and whose url is present has exactly one lookup attempted
\* and its entry logged, with version_id absent and a warning if the lookup
\* failed, and the response is not 500 on its account.
C4_Original ==
    Done => \A k \in 1..Len(Items) :
        (k <= StopPos(Items) /\ NeedsEnrichment(Items[k]))
            => /\ Cardinality(LookupsAt(inv, k)) = 1
               /\ EntryAt(inv, k)
               /\ WarningAt(inv, k) => VersionAbsentAt(inv, k)
               /\ ~(response.status = 500 /\ StopPos(Items) = k)

(***************************************************************************)
(* C5: when no lookup is attempted.                                        *)
(***************************************************************************)
\* the events that a lookup was attempted for
LookedUp == {Items[lookups[j].pos] : j \in 1..Len(lookups)}

\* the entries logged, each with the event it was logged for
Logged ==
    {<<logs[j].entry, Items[logs[j].pos]>> : j \in {k \in 1..Len(logs) : logs[k].kind = "entry"}}

UrlAbsent(e) == Absent(Payload(e).url)
VersionPresent(e) == ~Absent(Payload(e).versionId)
NameAbsentIfUrlAbsent(x, e) == UrlAbsent(e) => x.blob_name = Null
OwnVersionIfPresent(x, e) == VersionPresent(e) => x.version_id = Payload(e).versionId
OwnVersionIfNonEmpty(x, e) == HasOwnVersion(e) => x.version_id = Payload(e).versionId

\* C5 as stated: no lookup is attempted for a BlobCreated event whose url is absent
\* (its entry then has no blob_name), nor for one whose version_id is present; the
\* entry of the latter carries the event's own version_id.
C5_Original ==
    /\ \A e \in LookedUp : ~UrlAbsent(e) /\ ~VersionPresent(e)
    /\ \A xe \in Logged : NameAbsentIfUrlAbsent(xe[1], xe[2]) /\ OwnVersionIfPresent(xe[1], xe[2])

\* C5, amended: no lookup is attempted for a BlobCreated event whose url is absent
\* (its entry then has no blob_name), nor for one whose version_id is present and
\* not empty; the entry of the latter carries the event's own version_id.
C5_Guard ==
    /\ \A e \in LookedUp : ~UrlAbsent(e) /\ ~HasOwnVersion(e)
    /\ \A xe \in Logged : NameAbsentIfUrlAbsent(xe[1], xe[2]) /\ OwnVersionIfNonEmpty(xe[1], xe[2])

\* an event with a url and a version of its own, and one with a version and no
\* url, were both logged and nothing was looked up
C5_Witness ==
    /\ Done /\ Len(Items) = 2
    /\ IsBlobEvent(Items[1]) /\ ~UrlAbsent(Items[1]) /\ HasOwnVersion(Items[1])
    /\ IsBlobEvent(Items[2]) /\ UrlAbsent(Items[2]) /\ HasOwnVersion(Items[2])
    /\ Len(EntriesOf(inv)) = 2
    /\ EntriesOf(inv)[1].entry.version_id = Payload(Items[1]).versionId
    /\ EntriesOf(inv)[2].entry.blob_name = Null
    /\ lookups = <<>>

(***************************************************************************)
(* C6: the response of a batch.                                            *)
(***************************************************************************)
IsHandshake(r) == r.status = 200 /\ r.mimetype = "application/json"

\* C6: a request that does not end in a handshake response is answered 200 with an
\* empty body if no unhandled exception occurred and 500 with the text "Error" if
\* one did; an exception raised in the handler is answered with that 500 and
\* never leaves it.
C6_Response ==
    /\ [][pc = "except" => (pc' = "done" /\ response' = Reply500)]_vars
    /\ [](Done <=> response # NoResponse)
    /\ []((Done /\ ~IsHandshake(response)) =>
            IF ExceptionOccurs THEN response = Reply500 ELSE response = Reply200)

\* a batch whose second event raised, after an entry was logged, was answered 500
C6_Witness ==
    /\ Done /\ Len(Items) = 2
    /\ IsBlobEvent(Items[1]) /\ Len(EntriesOf(inv)) = 1
    /\ RaisesOn(Items[2])
    /\ response.status = 500

(***************************************************************************)
(* C7: a validation event without a code.                                  *)
(***************************************************************************)
\* the handler is about to handle the event at position i
AtEvent == pc = "loop" /\ i \in 1..Len(Items)

\* the step passes over the event: nothing is logged, looked up or answered, and
\* the next event is handled next
PassedOver ==
    /\ pc' = "loop" /\ i' = i + 1
    /\ logs' = logs /\ lookups' = lookups /\ response' = response

\* a validation event whose data, an object or missing, has no validationCode
NoCode(e) == IsValidationEvent(e) /\ PayloadIsObject(e) /\ Absent(Payload(e).validationCode)

\* a validation event whose data has no validationCode, a null data included
NoCodeAtAll(e) == IsValidationEvent(e) /\ (e.data = Null \/ NoCode(e))

\* the batch has events, and all are such events
OnlyNoCode == BodyIsBatch /\ Len(Items) >= 1 /\ \A k \in 1..Len(Items) : NoCode(Items[k])
OnlyNoCodeAtAll ==
    BodyIsBatch /\ Len(Items) >= 1 /\ \A k \in 1..Len(Items) : NoCodeAtAll(Items[k])

QuietOk == response = Reply200 /\ logs = <<>> /\ lookups = <<>>

\* C7 as stated: a validation event whose data has no validationCode is passed
\* over silently, and a batch of nothing else is answered 200 with an empty body.
C7_Original ==
    /\ [][(AtEvent /\ NoCodeAtAll(Items[i])) => PassedOver]_vars
    /\ []((Done /\ OnlyNoCodeAtAll) => QuietOk)

\* C7, amended: a validation event whose data is missing or is an object, and has no
\* validationCode, is passed over silently, and a batch of nothing else is answered
\* 200 with an empty body.
C7_Skip ==
    /\ [][(AtEvent /\ NoCode(Items[i])) => PassedOver]_vars
    /\ []((Done /\ OnlyNoCode) => QuietOk)

\* a validation event without a code was passed over and the BlobCreated event
\* after it was logged
C7_Witness ==
    /\ Done /\ Len(Items) = 2
    /\ NoCode(Items[1]) /\ IsBlobEvent(Items[2])
    /\ Len(EntriesOf(inv)) = 1 /\ EntriesOf(inv)[1].pos = 2
    /\ response = Reply200

(***************************************************************************)
(* C8: events of unknown type.                                             *)
(***************************************************************************)
\* the batch without its events of unknown type
Known(b) == SelectSeq(b, LAMBDA e : ~IsUnknownEvent(e))

\* the response to a batch b
ResponseAt(b, k) ==
    IF k > Len(b) THEN Reply200
    ELSE IF RaisesOn(b[k]) THEN Reply500
    ELSE HandshakeOf(b[k])
ResponseTo(b) == ResponseAt(b, StopPos(b))

\* the response and the entries logged are those of the batch b
AsFor(b) == response = ResponseTo(b) /\ EntriesAre(inv, b, StopPos(b))

\* C8: an event whose type is neither of the two (or that has no eventType) is
\* passed over: no entry, no lookup, no error; and the entries logged and the
\* response are those of the batch without such events.
C8_Unknown ==
    /\ [][(AtEvent /\ IsUnknownEvent(Items[i])) => PassedOver]_vars
    /\ []((Done /\ BodyIsBatch) => AsFor(Known(Items)))

\* an event without eventType, a BlobCreated event and an event of another type:
\* one entry, 200
C8_Witness ==
    /\ Done /\ Len(Items) = 3
    /\ Items[1].t = "obj" /\ Items[1].eventType = Missing
    /\ IsBlobEvent(Items[2])
    /\ IsUnknownEvent(Items[3]) /\ Items[3].eventType # Missing
    /\ Len(EntriesOf(inv)) = 1
    /\ response = Reply200

(***************************************************************************)
(* C9: the handshake ends the batch.                                       *)
(***************************************************************************)
\* the step returns the handshake response and does nothing else
Returned ==
    /\ pc' = "done" /\ response' = HandshakeOf(Items[i])
    /\ logs' = logs /\ lookups' = lookups

\* nothing of the current invocation was logged or looked up for position k or later
NothingFrom(k) ==
    /\ \A j \in 1..Len(logs) : logs[j].inv = inv => logs[j].pos < k
    /\ \A j \in 1..Len(lookups) : lookups[j].inv = inv => lookups[j].pos < k

\* every BlobCreated event before k that needed a lookup had one
LookedUpBefore(k) ==
    \A j \in 1..(k - 1) :
        (NeedsEnrichment(Items[j]) /\ ~RaisesOn(Items[j]))
            => Cardinality(LookupsAt(inv, j)) = 1

\* the handler gets to an event that carries a code; a non-empty code
ReachesCode ==
    \E k \in 1..Len(Items) :
        /\ CarriesCode(Items[k])
        /\ \A j \in 1..(k - 1) : ~CarriesCode(Items[j]) /\ ~RaisesOn(Items[j])
ReachesNonEmptyCode ==
    \E k \in 1..Len(Items) :
        /\ CarriesNonEmptyCode(Items[k])
        /\ \A j \in 1..(k - 1) : ~CarriesNonEmptyCode(Items[j]) /\ ~RaisesOn(Items[j])

\* C9 as stated: at a validation event that carries a validationCode the handler
\* returns the handshake response at once; no later event is inspected, logged or
\* enriched, and the entries and lookups of the earlier events stay.
C9_Original ==
    /\ [][(AtEvent /\ CarriesCode(Items[i])) => Returned]_vars
    /\ []((Done /\ ReachesCode) =>
            /\ NothingFrom(FirstCode(Items))
            /\ EntriesInPlace(inv, Items, FirstCode(Items))
            /\ LookedUpBefore(FirstCode(Items)))

\* C9, amended: at a validation event that carries a non-empty validationCode the
\* handler returns the handshake response at once; no later event is inspected,
\* logged or enriched, and the entries and lookups of the earlier events stay.
C9_HandshakeEnds ==
    /\ [][(AtEvent /\ CarriesNonEmptyCode(Items[i])) => Returned]_vars
    /\ []((Done /\ ReachesNonEmptyCode) =>
            /\ NothingFrom(FirstNonEmptyCode(Items))
            /\ EntriesInPlace(inv, Items, FirstNonEmptyCode(Items))
            /\ LookedUpBefore(FirstNonEmptyCode(Items)))

\* a looked-up BlobCreated event, the handshake, a BlobCreated event never reached
C9_Witness ==
    /\ Done /\ Len(Items) = 3
    /\ NeedsEnrichment(Items[1]) /\ CarriesNonEmptyCode(Items[2]) /\ IsBlobEvent(Items[3])
    /\ Len(EntriesOf(inv)) = 1 /\ Len(lookups) = 1
    /\ IsHandshake(response)

(***************************************************************************)
(* C10: partial effects of a failed batch, and its retry (under SpecRetry). *)
(***************************************************************************)
\* the entries of invocations m and n agree but for their version_id
SameButVersion(m, n) ==
    /\ Len(EntriesOf(m)) = Len(EntriesOf(n))
    /\ \A j \in 1..Len(EntriesOf(m)) :
         [EntriesOf(m)[j].entry EXCEPT !.version_id = Null]
            = [EntriesOf(n)[j].entry EXCEPT !.version_id = Null]

\* C10 as stated: when the event at position k raises, the response is 500 and the
\* entries logged are those of the BlobCreated events before k, in input order;
\* they are not retracted, and a retry of the batch logs the same entries again.
C10_Original ==
    /\ (Done /\ ExceptionOccurs) =>
          response = Reply500 /\ EntriesInPlace(inv, Items, StopPos(Items))
    /\ \A n \in 1..(inv - 1) : EntriesInPlace(n, Items, StopPos(Items))
    /\ (Done /\ inv > 1) => Untagged(EntriesOf(inv)) = Untagged(EntriesOf(inv - 1))

\* C10, amended: when the event at position k raises, the response is 500 and the
\* entries logged are those of the BlobCreated events before k, in input order;
\* they are not retracted, and a retry of the batch logs an entry for each of
\* those events again, the same but for a version_id that was looked up, which
\* may differ from one run to the next.
C10_PartialEffects ==
    /\ (Done /\ ExceptionOccurs) =>
          response = Reply500 /\ EntriesInPlace(inv, Items, StopPos(Items))
    /\ \A n \in 1..(inv - 1) : EntriesInPlace(n, Items, StopPos(Items))
    /\ (Done /\ inv > 1) =>
          /\ SameButVersion(inv, inv - 1)
          /\ \A j \in 1..Len(EntriesOf(inv)) :
               HasOwnVersion(Items[EntriesOf(inv)[j].pos])
                  => EntriesOf(inv)[j].entry = EntriesOf(inv - 1)[j].entry

\* a batch failed twice at its second event; the first event's entry was logged in
\* both runs, with the version found in one and not in the other
C10_Witness ==
    /\ Done /\ inv = 2 /\ Len(Items) = 2
    /\ RaisesOn(Items[2])
    /\ Len(EntriesOf(1)) = 1 /\ Len(EntriesOf(2)) = 1
    /\ EntriesOf(1)[1].entry.version_id # EntriesOf(2)[1].entry.version_id
    /\ response = Reply500

====
